---- MODULE Spec2Model ----
(***************************************************************************)
(* Verse card rendering pipeline of src/main.py: the VERSE_CACHE mapping   *)
(* shared by the /votd_combo and /vimg/<key> handlers, the upstream verse  *)
(* fetch, the background fallback chain and the pixel-width text wrapper.  *)
(*                                                                         *)
(* A Python str is a sequence of one-character strings.  None is the empty *)
(* sequence; a verse is the pair <<reference, text>>.                      *)
(***************************************************************************)
EXTENDS Integers, Sequences, FiniteSets, TLC

(***************************************************************************)
(* Bounds of the model.                                                    *)
(***************************************************************************)
MaxReqs == 3          \* requests handled in one behaviour
MaxKeys == 2          \* distinct key values uuid4 / the URL can carry
MaxTextLen == 5       \* length of the texts given to wrap_text_pixels
MaxWidth == 6         \* largest max_width given to wrap_text_pixels
MaxFontSize == 2      \* largest face size given to wrap_text_pixels
MaxDim == 3           \* largest small frame side given to get_pexels_background

(***************************************************************************)
(* Strings.                                                                *)
(***************************************************************************)
None == <<>>

Whitespace == {" ", "\n"}

Alphabet == {"i", "m", " ", "\n"}

RECURSIVE LStrip(_)
LStrip(s) ==
    IF s # <<>> /\ Head(s) \in Whitespace THEN LStrip(Tail(s)) ELSE s

RECURSIVE RStrip(_)
RStrip(s) ==
    IF s # <<>> /\ s[Len(s)] \in Whitespace
    THEN RStrip(SubSeq(s, 1, Len(s) - 1))
    ELSE s

\* str.strip()
Strip(s) == RStrip(LStrip(s))

\* str.split(): the maximal runs of non-whitespace characters, in order.
RECURSIVE SplitFrom(_, _, _, _)
SplitFrom(s, i, cur, acc) ==
    IF i > Len(s)
    THEN IF cur = <<>> THEN acc ELSE Append(acc, cur)
    ELSE IF s[i] \in Whitespace
         THEN SplitFrom(s, i + 1, <<>>, IF cur = <<>> THEN acc ELSE Append(acc, cur))
         ELSE SplitFrom(s, i + 1, Append(cur, s[i]), acc)

Split(s) == SplitFrom(s, 1, <<>>, <<>>)

Digit == <<"0", "1", "2", "3", "4", "5", "6", "7", "8", "9">>

\* str(n) of a non-negative integer
RECURSIVE Str(_)
Str(n) == IF n < 10 THEN <<Digit[n + 1]>> ELSE Str(n \div 10) \o <<Digit[(n % 10) + 1]>>

(***************************************************************************)
(* Fonts and glyph metrics.  A face is its pixel size; a glyph's advance   *)
(* is its size times the advance units of the character.                   *)
(***************************************************************************)
DefaultFontSize == 10

\* load_fonts(): all three faces TrueType, or all three the default face.
LoadFonts(truetypeAvailable) ==
    IF truetypeAvailable
    THEN [verse_font |-> 44, ref_font |-> 32, tag_font |-> 24]
    ELSE [verse_font |-> DefaultFontSize, ref_font |-> DefaultFontSize,
          tag_font |-> DefaultFontSize]

AdvanceUnits(c) ==
    CASE c = "m" -> 3
      [] c = "\n" -> 0
      [] c = " " -> 1
      [] OTHER -> 1

\* the advance of s[i..] in pixels
RECURSIVE TextLengthFrom(_, _, _)
TextLengthFrom(s, i, font) ==
    IF i > Len(s) THEN 0
    ELSE font * AdvanceUnits(s[i]) + TextLengthFrom(s, i + 1, font)

TextLength(s, font) == TextLengthFrom(s, 1, font)

\* draw.textbbox((0, 0), s, font=font) as <<left, top, right, bottom>>
TextBBox(s, font) == <<0, 0, TextLength(s, font), IF s = <<>> THEN 0 ELSE font>>

\* bbox[2] - bbox[0]
BBoxWidth(bbox) == bbox[3] - bbox[1]

(***************************************************************************)
(* wrap_text_pixels                                                        *)
(***************************************************************************)
\* variant: the word appended without the separating space
TestLineNoSpace(line, w) == line \o w

\* test_line = w if not line else line + " " + w
TestLine(line, w) == IF line = <<>> THEN w ELSE line \o <<" ">> \o w

\* variant: the fit test by character count instead of pixel width
FitsCharCount(test_line, font, max_width) == Len(test_line) <= max_width

\* variant: the fit test with < in place of <=
FitsStrict(test_line, font, max_width) ==
    BBoxWidth(TextBBox(test_line, font)) < max_width

\* line_width <= max_width
Fits(test_line, font, max_width) ==
    BBoxWidth(TextBBox(test_line, font)) <= max_width

\* if line: lines.append(line)
CloseLine(lines, line) == IF line # <<>> THEN Append(lines, line) ELSE lines

\* the for loop over words, carrying (lines, line)
RECURSIVE WrapLoop(_, _, _, _, _)
WrapLoop(words, lines, line, font, max_width) ==
    IF words = <<>>
    THEN CloseLine(lines, line)
    ELSE LET w == Head(words)
             test_line == TestLine(line, w)
         IN  IF Fits(test_line, font, max_width)
             THEN WrapLoop(Tail(words), lines, test_line, font, max_width)
             ELSE WrapLoop(Tail(words), CloseLine(lines, line), w, font, max_width)

\* variant: no fallback for a text without words
WrapResultNoFallback(lines, text) == lines

\* if not lines: return [text]
WrapResult(lines, text) == IF lines = <<>> THEN <<text>> ELSE lines

wrap_text_pixels(text, font, max_width) ==
    WrapResult(WrapLoop(Split(text), <<>>, <<>>, font, max_width), text)

(***************************************************************************)
(* Upstream verse source and get_random_verse                              *)
(***************************************************************************)
NetSuffix == <<" ", "(", "N", "E", "T", ")">>

VerseFields == {"bookname", "chapter", "verse", "text"}

\* Two records of the Bible API; the second one carries no "bookname".
RecordA == [has |-> VerseFields, bookname |-> <<"m">>, chapter |-> 3,
            verse |-> 16, text |-> <<" ", "i", " ", "m", "\n">>]

RecordB == [has |-> {"chapter", "verse", "text"}, bookname |-> <<>>,
            chapter |-> 1, verse |-> 2, text |-> <<"m", "m">>]

\* What requests.get + raise_for_status + resp.json() can deliver.
UpstreamResponses ==
    { [status |-> "error", data |-> <<>>],
      [status |-> "ok", data |-> <<>>],
      [status |-> "ok", data |-> <<RecordA>>],
      [status |-> "ok", data |-> <<RecordB, RecordA>>] }

\* verse.get(field, "")
GetStr(rec, field) == IF field \in rec.has THEN rec[field] ELSE <<>>

\* str(verse.get(field, ""))
GetAsStr(rec, field) == IF field \in rec.has THEN Str(rec[field]) ELSE <<>>

\* f"{book} {chapter}:{verse_num} (NET)"
FormatReference(book, chapter, verse_num) ==
    book \o <<" ">> \o chapter \o <<":">> \o verse_num \o NetSuffix

\* get_random_verse(): raised, or the pair (reference, text)
get_random_verse(resp) ==
    IF resp.status = "ok" /\ resp.data # <<>>
    THEN LET verse == resp.data[1]
             book == Strip(GetStr(verse, "bookname"))
             chapter == Strip(GetAsStr(verse, "chapter"))
             verse_num == Strip(GetAsStr(verse, "verse"))
             text == Strip(GetStr(verse, "text"))
         IN  [raised |-> FALSE,
              value |-> <<FormatReference(book, chapter, verse_num), text>>]
    ELSE [raised |-> TRUE, value |-> None]

\* ("Verse not available", "Sorry, could not load verse text.")
Placeholder ==
    << <<"V", "e", "r", "s", "e", " ", "n", "o", "t", " ", "a", "v", "a", "i", "l", "a", "b", "l", "e">>,
       <<"S", "o", "r", "r", "y", ",", " ", "c", "o", "u", "l", "d", " ", "n", "o", "t", " ", "l", "o", "a", "d", " ", "v", "e", "r", "s", "e", " ", "t", "e", "x", "t", ".">> >>

(***************************************************************************)
(* Background provider                                                     *)
(***************************************************************************)
CanvasWidth == 1400
CanvasHeight == 788
MarginX == 160
OverlayAlpha == 110

SearchOutcomes == {"error", "no_photos", "no_src", "url"}

\* The image download: failed, not an image, or an image of some size.
DownloadOutcomes ==
    { [status |-> "error", size |-> <<0, 0>>],
      [status |-> "undecodable", size |-> <<0, 0>>],
      [status |-> "ok", size |-> <<1920, 1080>>] }

NoImage == [kind |-> "none", size |-> <<0, 0>>, overlay |-> 0, searches |-> 0]

\* create_gradient_background(width, height)
create_gradient_background(width, height) ==
    [kind |-> "gradient", size |-> <<width, height>>, overlay |-> 0, searches |-> 0]

\* variant: the photo kept at its own size
ResizeNone(img, width, height) == img

\* bg_img.resize((width, height), Image.LANCZOS)
Resize(img, width, height) == [img EXCEPT !.size = <<width, height>>]

\* Image.alpha_composite(bg_img, overlay) with an overlay of the frame size
AlphaComposite(img, width, height) ==
    [img EXCEPT !.overlay = OverlayAlpha]

\* get_pexels_background(width, height); searches counts the search requests
get_pexels_background(width, height, apiKey, search, download) ==
    IF ~apiKey
    THEN create_gradient_background(width, height)
    ELSE IF search # "url" \/ download.status # "ok"
         THEN [create_gradient_background(width, height) EXCEPT !.searches = 1]
         ELSE LET opened == [kind |-> "photo", size |-> download.size,
                             overlay |-> 0, searches |-> 1]
              IN  AlphaComposite(Resize(opened, width, height), width, height)

(***************************************************************************)
(* VERSE_CACHE operations                                                  *)
(***************************************************************************)
Keys == 1..MaxKeys
NoKey == 0

\* variant: a key that may repeat an earlier one
Uuid4Any(used) == Keys

\* uuid.uuid4().hex: a key no earlier call has returned
Uuid4(used) == Keys \ used

\* variant: a put that evicts the other entries
CachePutEvict(cache, key, verse) == [k \in {key} |-> verse]

\* VERSE_CACHE[key] = (reference, text)
CachePut(cache, key, verse) ==
    [k \in (DOMAIN cache) \cup {key} |-> IF k = key THEN verse ELSE cache[k]]

\* the value VERSE_CACHE.pop(key, None) returns
PopValue(cache, key) == IF key \in DOMAIN cache THEN cache[key] ELSE None

\* variant: a read that leaves the entry in place
PopRestKeep(cache, key) == cache

\* the mapping VERSE_CACHE.pop(key, None) leaves behind
PopRest(cache, key) == [k \in (DOMAIN cache) \ {key} |-> cache[k]]

\* variant: no placeholder when the re-fetch fails
ResolveMissNoPlaceholder(result) == IF result.raised THEN None ELSE result.value

\* the try/except around get_random_verse() in verse_image
ResolveMiss(result) == IF result.raised THEN Placeholder ELSE result.value

(***************************************************************************)
(* State                                                                   *)
(***************************************************************************)
VARIABLES
    VERSE_CACHE,      \* key -> (reference, text)
    req,              \* the requests: route, position, locals and reply of each
    wtext, wfont, wmax, wlines, wpc,        \* one call of wrap_text_pixels
    bgKey, bgWidth, bgHeight, bgSearch, bgDownload, bgFrame, bgpc
                      \* one call of get_pexels_background

vars == <<VERSE_CACHE, req, wtext, wfont, wmax, wlines, wpc,
          bgKey, bgWidth, bgHeight, bgSearch, bgDownload, bgFrame, bgpc>>

wrapVars == <<wtext, wfont, wmax, wlines, wpc>>

bgVars == <<bgKey, bgWidth, bgHeight, bgSearch, bgDownload, bgFrame, bgpc>>

Reqs == 1..MaxReqs

NoPicture == [reference |-> <<>>, lines |-> <<>>, size |-> <<0, 0>>]

IdleReq == [route |-> "none", pc |-> "idle", key |-> NoKey, verse |-> None,
            hit |-> "na", fetched |-> None,
            reply |-> "none", image |-> NoPicture]

EmptyCache == [k \in {} |-> None]

WrapIdle ==
    wtext = <<>> /\ wfont = 1 /\ wmax = 0 /\ wlines = <<>> /\ wpc = "off"

BgIdle ==
    /\ bgKey = FALSE /\ bgWidth = 0 /\ bgHeight = 0
    /\ bgSearch = "error" /\ bgDownload = [status |-> "error", size |-> <<0, 0>>]
    /\ bgFrame = NoImage /\ bgpc = "off"

Init ==
    /\ VERSE_CACHE = EmptyCache
    /\ req = [r \in Reqs |-> IdleReq]
    /\ WrapIdle
    /\ BgIdle

\* the next request slot: requests are numbered in order of arrival
Arrives(r) == req[r].pc = "idle" /\ \A q \in Reqs : q < r => req[q].pc # "idle"

\* keys that calls of uuid4 have returned so far
UsedKeys == {req[q].key : q \in {p \in Reqs : req[p].route = "votd_combo" /\ req[p].key # NoKey}}

\* what get_random_verse() can return or raise
VerseResults == {get_random_verse(resp) : resp \in UpstreamResponses}

\* what get_pexels_background(width, height) can return, whatever the
\* environment (PEXELS_API_KEY set or not) and the photo source do
Backgrounds(width, height) ==
    {get_pexels_background(width, height, apiKey, search, download) :
        apiKey \in BOOLEAN, search \in SearchOutcomes, download \in DownloadOutcomes}

\* the cached verse was found: get_random_verse() is not called
NoFetch == [raised |-> FALSE, value |-> None]

\* the frames verse_image can get from get_pexels_background(width, height)
CanvasBackgrounds == Backgrounds(CanvasWidth, CanvasHeight)

\* text_box_width = width - 2 * margin_x
TextBoxWidth == CanvasWidth - 2 * MarginX

\* the verses verse_image can come to draw
DrawnVerses == {ResolveMiss(result) : result \in VerseResults} \ {None}

\* wrap_text_pixels(text, verse_font, max_width=text_box_width), tabulated
\* for the texts and faces verse_image can pass
WrappedBody ==
    [verse \in DrawnVerses, truetype \in BOOLEAN |->
        wrap_text_pixels(verse[2], LoadFonts(truetype).verse_font, TextBoxWidth)]

(***************************************************************************)
(* Routes                                                                  *)
(***************************************************************************)
\* GET /votd
votd_text(r) ==
    /\ Arrives(r)
    /\ \E result \in VerseResults :
         req' = [req EXCEPT ![r] = [@ EXCEPT !.route = "votd", !.pc = "done",
                    !.reply = IF result.raised THEN "error" ELSE "text"]]
    /\ UNCHANGED <<VERSE_CACHE, wrapVars, bgVars>>

\* GET /votd_combo
votd_combo(r) ==
    /\ Arrives(r)
    /\ Cardinality(UsedKeys) < MaxKeys
    /\ \E result \in VerseResults :
         IF result.raised
         THEN /\ req' = [req EXCEPT ![r] = [@ EXCEPT !.route = "votd_combo",
                            !.pc = "done", !.reply = "error"]]
              /\ UNCHANGED VERSE_CACHE
         ELSE \E key \in Uuid4(UsedKeys) :
                /\ VERSE_CACHE' = CachePut(VERSE_CACHE, key, result.value)
                /\ req' = [req EXCEPT ![r] = [@ EXCEPT !.route = "votd_combo",
                              !.pc = "done", !.key = key,
                              !.verse = result.value, !.reply = "text"]]
    /\ UNCHANGED <<wrapVars, bgVars>>

\* GET /vimg/<key> is dispatched
verse_image_arrive(r, key) ==
    /\ Arrives(r)
    /\ req' = [req EXCEPT ![r] = [@ EXCEPT !.route = "vimg", !.pc = "pop",
                                           !.key = key]]
    /\ UNCHANGED <<VERSE_CACHE, wrapVars, bgVars>>

\* verse = VERSE_CACHE.pop(key, None)
verse_image_pop(r) ==
    /\ req[r].route = "vimg" /\ req[r].pc = "pop"
    /\ LET verse == PopValue(VERSE_CACHE, req[r].key)
       IN  req' = [req EXCEPT ![r] = [@ EXCEPT !.pc = "render", !.verse = verse,
                      !.hit = IF verse = None THEN "miss" ELSE "hit"]]
    /\ VERSE_CACHE' = PopRest(VERSE_CACHE, req[r].key)
    /\ UNCHANGED <<wrapVars, bgVars>>

\* verse_image from "if verse is None" to send_file(buf, mimetype="image/png")
verse_image_render(r) ==
    /\ req[r].route = "vimg" /\ req[r].pc = "render"
    /\ \E result \in IF req[r].verse = None
                     THEN VerseResults ELSE {NoFetch} :
         LET verse == IF req[r].verse = None THEN ResolveMiss(result)
                                            ELSE req[r].verse
         IN  IF verse = None
             THEN req' = [req EXCEPT ![r] = [@ EXCEPT !.pc = "done",
                            !.fetched = result.value, !.reply = "exception"]]
             ELSE LET reference == verse[1]
                  IN  \E bg_img \in CanvasBackgrounds,
                         lines \in {WrappedBody[verse, truetype] :
                                       truetype \in BOOLEAN} :
                        req' = [req EXCEPT ![r] = [@ EXCEPT !.pc = "done",
                                   !.fetched = result.value,
                                   !.verse = verse, !.reply = "image",
                                   !.image = [reference |-> reference,
                                              lines |-> lines,
                                              size |-> bg_img.size]]]
    /\ UNCHANGED <<VERSE_CACHE, wrapVars, bgVars>>

Next ==
    \/ \E r \in Reqs : votd_text(r)
    \/ \E r \in Reqs : votd_combo(r)
    \/ \E r \in Reqs, key \in Keys : verse_image_arrive(r, key)
    \/ \E r \in Reqs : verse_image_pop(r)
    \/ \E r \in Reqs : verse_image_render(r)

Spec == Init /\ [][Next]_vars

(***************************************************************************)
(* One call of wrap_text_pixels on an arbitrary text, face and budget      *)
(***************************************************************************)
Texts == UNION {[1..n -> Alphabet] : n \in 0..MaxTextLen}

WrapInit ==
    /\ VERSE_CACHE = EmptyCache
    /\ req = [r \in Reqs |-> IdleReq]
    /\ BgIdle
    /\ wtext \in Texts
    /\ wfont \in 1..MaxFontSize
    /\ wmax \in 0..MaxWidth
    /\ wlines = <<>>
    /\ wpc = "call"

WrapCall ==
    /\ wpc = "call"
    /\ wlines' = wrap_text_pixels(wtext, wfont, wmax)
    /\ wpc' = "done"
    /\ UNCHANGED <<VERSE_CACHE, req, wtext, wfont, wmax, bgVars>>

WrapNext == WrapCall

WrapSpec == WrapInit /\ [][WrapNext]_vars

(***************************************************************************)
(* One call of get_pexels_background on an arbitrary frame size            *)
(***************************************************************************)
Dims == 0..MaxDim

BgInit ==
    /\ VERSE_CACHE = EmptyCache
    /\ req = [r \in Reqs |-> IdleReq]
    /\ WrapIdle
    /\ bgKey \in BOOLEAN
    /\ bgWidth \in Dims \cup {CanvasWidth}
    /\ bgHeight \in Dims \cup {CanvasHeight}
    /\ bgSearch \in SearchOutcomes
    /\ bgDownload \in DownloadOutcomes
    /\ bgFrame = NoImage
    /\ bgpc = "call"

BgCall ==
    /\ bgpc = "call"
    /\ bgFrame' = get_pexels_background(bgWidth, bgHeight, bgKey, bgSearch,
                                        bgDownload)
    /\ bgpc' = "done"
    /\ UNCHANGED <<VERSE_CACHE, req, wrapVars, bgKey, bgWidth, bgHeight,
                   bgSearch, bgDownload>>

BgNext == BgCall

BgSpec == BgInit /\ [][BgNext]_vars
(***************************************************************************)
(* Properties of the verse cache and the routes (Spec)                     *)
(***************************************************************************)
Images == {r \in Reqs : req[r].route = "vimg"}

\* the issuances that stored a record and replied with a link
Issuances == {r \in Reqs : req[r].route = "votd_combo" /\ req[r].reply = "text"}

\* the /vimg requests whose pop returned the record of key k
Hitters(k) == {r \in Images : req[r].key = k /\ req[r].hit = "hit"}

\* request r makes its pop in this step
Pops(r) == req[r].route = "vimg" /\ req[r].pc = "pop" /\ req'[r].pc = "render"

\* C1: once a takeOnce(k) has returned the record of key k, every later
\* takeOnce(k) returns absent (None), whatever puts and takes happen around.
C1_SingleUse ==
    [][\A r \in Reqs :
          (Pops(r) /\ Hitters(req[r].key) # {})
              => (req'[r].hit = "miss" /\ req'[r].verse = None)]_vars

\* an issuance of k, then a request that took k, then a later request for k
\* that found it absent
C1_Witness ==
    \E c \in Issuances, r1 \in Images, r2 \in Images :
        /\ c < r1 /\ r1 < r2
        /\ req[r1].key = req[c].key /\ req[r2].key = req[c].key
        /\ req[r1].hit = "hit" /\ req[r2].hit = "miss"

\* C2: of the concurrent /vimg requests for one issued key, exactly one gets
\* the cached record and all the others see absent, in every interleaving:
\* an issued key is either still cached and taken by nobody, or gone and
\* taken by exactly one request; a key never issued is taken by nobody.
C2_ExactlyOneWinner ==
    \A k \in Keys :
        /\ Cardinality(Hitters(k)) <= 1
        /\ \A r \in Images : req[r].key = k /\ req[r].pc # "pop"
                                => req[r].hit \in {"hit", "miss"}
        /\ IF k \in UsedKeys
           THEN (k \in DOMAIN VERSE_CACHE) <=> (Hitters(k) = {})
           ELSE k \notin DOMAIN VERSE_CACHE /\ Hitters(k) = {}

\* two requests for an issued key in flight together: the one dispatched
\* first was still before its pop when the other took the record
C2_Witness ==
    \E c \in Issuances, r1 \in Images, r2 \in Images :
        /\ c < r1 /\ r1 < r2
        /\ req[r1].key = req[c].key /\ req[r2].key = req[c].key
        /\ req[r2].hit = "hit" /\ req[r1].hit = "miss"

\* the image of request r draws verse v: its reference, and its text wrapped
\* to the text box in one of the two body faces
Renders(r, v) ==
    /\ req[r].reply = "image"
    /\ req[r].image.reference = v[1]
    /\ v \in DrawnVerses
    /\ \E truetype \in BOOLEAN : req[r].image.lines = WrappedBody[v, truetype]

\* C3: /vimg/<key> always replies with an image, never with an escaped
\* exception; a present key renders the cached record, an absent key with a
\* successful re-fetch renders the fetched record, and the placeholder is
\* rendered exactly when the key is absent and the re-fetch fails.
C3_AlwaysAnImage ==
    \A r \in Images :
        /\ req[r].reply # "exception"
        /\ req[r].pc = "done" =>
             /\ Renders(r, req[r].verse)
             /\ req[r].hit = "hit" =>
                  \E c \in Issuances : /\ req[c].key = req[r].key
                                       /\ req[c].verse = req[r].verse
             /\ (req[r].hit = "miss" /\ req[r].fetched # None) =>
                  /\ req[r].verse = req[r].fetched
                  /\ ~Renders(r, Placeholder)
             /\ Renders(r, Placeholder) <=>
                  (req[r].hit = "miss" /\ req[r].fetched = None)

\* a request for an absent key whose re-fetch failed has replied
C3_Witness ==
    \E r \in Images :
        /\ req[r].pc = "done" /\ req[r].hit = "miss" /\ req[r].fetched = None
        /\ req[r].verse = Placeholder

\* C4: the record stored under a freshly generated key k is the one the first
\* takeOnce(k) returns, whatever puts and takes on other keys come between;
\* no two issuances share a key and no put changes the record of a cached key.
C4_RoundTrip ==
    \A c \in Issuances :
        /\ \A d \in Issuances : d # c => req[d].key # req[c].key
        /\ req[c].key \in DOMAIN VERSE_CACHE
               => VERSE_CACHE[req[c].key] = req[c].verse
        /\ \A r \in Hitters(req[c].key) : req[r].verse = req[c].verse

\* a put of one record, a put of another record under another key, then a
\* take of the first key
C4_Witness ==
    \E c \in Issuances, d \in Issuances, r \in Images :
        /\ c < d /\ d < r
        /\ req[c].verse # req[d].verse
        /\ req[r].key = req[c].key /\ req[r].hit = "hit"
        /\ req[d].key \in DOMAIN VERSE_CACHE

\* the cache after the step is the cache before it plus key k bound to v
AddsOne(k, v) ==
    /\ k \notin DOMAIN VERSE_CACHE
    /\ DOMAIN VERSE_CACHE' = DOMAIN VERSE_CACHE \cup {k}
    /\ VERSE_CACHE'[k] = v
    /\ \A j \in DOMAIN VERSE_CACHE : VERSE_CACHE'[j] = VERSE_CACHE[j]

\* the cache after the step is the cache before it minus key k
RemovesOne(k) ==
    /\ k \in DOMAIN VERSE_CACHE
    /\ DOMAIN VERSE_CACHE' = DOMAIN VERSE_CACHE \ {k}
    /\ \A j \in DOMAIN VERSE_CACHE' : VERSE_CACHE'[j] = VERSE_CACHE[j]

\* C9: the cache changes only by a successful issuance adding one new key and
\* by a pop of a present key removing that key; a pop of an absent key, the
\* re-fetch and placeholder paths, /votd and a failed issuance leave it as it
\* is, so an entry nobody requests stays.
C9_CacheFrame ==
    [][\A r \in Reqs : req'[r] # req[r] =>
          IF req'[r].route = "votd_combo" /\ req'[r].reply = "text"
          THEN AddsOne(req'[r].key, req'[r].verse)
          ELSE IF Pops(r) /\ req[r].key \in DOMAIN VERSE_CACHE
          THEN RemovesOne(req[r].key)
          ELSE VERSE_CACHE' = VERSE_CACHE]_vars

\* an entry is still cached after a later /votd request and a later image
\* request for another key have both completed
C9_Witness ==
    \E c \in Issuances, v \in Reqs, r \in Images :
        /\ c < v /\ c < r
        /\ req[v].route = "votd" /\ req[v].pc = "done"
        /\ req[r].pc = "done" /\ req[r].key # req[c].key
        /\ req[c].key \in DOMAIN VERSE_CACHE
        /\ VERSE_CACHE[req[c].key] = req[c].verse

(***************************************************************************)
(* Properties of wrap_text_pixels (WrapSpec)                               *)
(***************************************************************************)
Width(line) == BBoxWidth(TextBBox(line, wfont))

LineIndexes == 1..Len(wlines)

\* line is one whole word wider than the budget
OverWideWord(line) == Split(line) = <<line>> /\ Width(line) > wmax

\* every emitted line fits the budget or is a single over-wide word, and
\* every over-wide word of the text is a line of its own
LinesFit ==
    /\ \A i \in LineIndexes : Width(wlines[i]) <= wmax \/ OverWideWord(wlines[i])
    /\ \A j \in 1..Len(Split(wtext)) :
          Width(Split(wtext)[j]) > wmax
              => \E i \in LineIndexes : wlines[i] = Split(wtext)[j]

RECURSIVE Join(_)
Join(parts) ==
    IF parts = <<>> THEN <<>>
    ELSE IF Len(parts) = 1 THEN parts[1]
    ELSE parts[1] \o <<" ">> \o Join(Tail(parts))

\* C6: for a text with at least one word, joining the emitted lines with
\* single spaces and splitting on whitespace gives the text's word sequence.
C6_WordOrder ==
    (wpc = "done" /\ Split(wtext) # <<>>)
        => Split(Join(wlines)) = Split(wtext)

\* three words wrapped into more than one line
C6_Witness ==
    wpc = "done" /\ Len(Split(wtext)) >= 3 /\ Len(wlines) >= 2

\* C7: the result is never empty: a text without words gives the one line
\* holding the text itself, a text with words gives non-empty lines only.
C7_NeverEmpty ==
    wpc = "done" =>
        /\ wlines # <<>>
        /\ Split(wtext) = <<>> => wlines = <<wtext>>
        /\ Split(wtext) # <<>> => \A i \in LineIndexes : wlines[i] # <<>>

\* the empty text was wrapped into the one empty line
C7_Witness == wpc = "done" /\ wtext = <<>> /\ wlines = << <<>> >>

\* C10: a line is closed only when the next word does not fit: each emitted
\* line followed by a space and the first word of the next line is wider
\* than the budget.
C10_Greedy ==
    wpc = "done" =>
        \A i \in LineIndexes : i < Len(wlines) =>
            Width(wlines[i] \o <<" ">> \o Head(Split(wlines[i + 1]))) > wmax

\* a line that took two words and was closed before a third
C10_Witness ==
    /\ wpc = "done" /\ Len(wlines) >= 2
    /\ Len(Split(wlines[1])) >= 2
    /\ Width(wlines[1]) <= wmax

(***************************************************************************)
(* Properties of get_pexels_background (BgSpec)                            *)
(***************************************************************************)
PhotoFails == bgSearch # "url" \/ bgDownload.status # "ok"

\* C8: background acquisition always returns a frame of the requested size:
\* the gradient with no search request when no credential is set, the
\* gradient after one search request when the photo strategy fails, the
\* darkened photo after one search request otherwise.
C8_AlwaysAFrame ==
    bgpc = "done" =>
        /\ bgFrame.size = <<bgWidth, bgHeight>>
        /\ bgFrame.kind \in {"gradient", "photo"}
        /\ bgFrame.searches <= 1
        /\ ~bgKey => (bgFrame.kind = "gradient" /\ bgFrame.searches = 0)
        /\ (bgKey /\ PhotoFails) => (bgFrame.kind = "gradient" /\ bgFrame.searches = 1)
        /\ (bgKey /\ ~PhotoFails) =>
              (bgFrame.kind = "photo" /\ bgFrame.overlay = OverlayAlpha)

\* a photo of another size was downloaded and returned at the frame size
C8_Witness ==
    /\ bgpc = "done" /\ bgKey /\ bgFrame.kind = "photo"
    /\ bgDownload.size # <<bgWidth, bgHeight>>
    /\ bgFrame.size = <<CanvasWidth, CanvasHeight>>
====
